---- MODULE Spec2Model ----
(***************************************************************************)
(* Model of CountingNN/metrics.py: the label normalizer squeeze_channels   *)
(* and the IoU evaluator (IoU.__init__, IoU.threshold_, IoU.compute_hist,  *)
(* IoU.evaluate).                                                          *)
(*                                                                         *)
(* Arrays are sequences.  The two spatial axes (H, W) are merged into one  *)
(* row-major pixel axis 1..P, so a channel-last image (H, W, C) is a       *)
(* sequence of P channel vectors and a channel-first image (C, H, W) is a  *)
(* sequence of C pixel rows.  Channel c of the code (0-based) is position  *)
(* c + 1 of a channel vector.  The channel count of an array is kept in    *)
(* the variable C, because an empty batch still has a shape.               *)
(***************************************************************************)
EXTENDS Integers, Sequences, FiniteSets, TLC

VARIABLES
    pc,          \* position of the call being modelled
    C,           \* labels.shape[-1] (squeeze_channels) / pred.shape[1] (IoU)
    images,      \* squeeze_channels argument
    labels,      \* squeeze_channels argument
    clip,        \* squeeze_channels argument
    ret,         \* value returned (or error raised) by the modelled call
    true,        \* IoU.__init__ argument
    true_ndim,   \* true.ndim: 3 for (N, H, W), 4 for (N, C, H, W)
    pred,        \* IoU.__init__ argument, shape (N, C, H, W)
    activation,  \* IoU.__init__ argument
    thresh,      \* IoU.__init__ argument, a rational <<num, den>>
    pred_act,    \* the local pred of __init__ after the activation block
    pred_thr,    \* the local pred of __init__ after threshold_
    nb_classes,  \* self.nb_classes
    self_true,   \* self.true
    self_pred,   \* self.pred
    n_done,      \* evaluate: number of (t, p) pairs already accumulated
    hist         \* evaluate: the running histogram

vars == <<pc, C, images, labels, clip, ret, true, true_ndim, pred, activation,
          thresh, pred_act, pred_thr, nb_classes, self_true, self_pred, n_done,
          hist>>

\* Bounds of the explored inputs.
MaxBatch == 2
MaxChan == 3
SqPix == 3
NPix == 2

\* Value of a variable the modelled call does not use.
None == <<>>

Min(a, b) == IF a < b THEN a ELSE b

\* All batches of at most n images taken from the set imgs.
Batches(imgs, n) == UNION {[1..k -> imgs] : k \in 0..n}

(***************************************************************************)
(* squeeze_channels                                                        *)
(***************************************************************************)

\* label_ += ilabel[:, :, c] * c for c in range(ilabel.shape[-1]), at one pixel.
RECURSIVE weighted_sum(_, _)
weighted_sum(vec, nc) ==
    IF nc = 0 THEN 0 ELSE weighted_sum(vec, nc - 1) + vec[nc] * (nc - 1)

\* squeeze_channels_(ilabel): the (1, H, W) map of channel-weighted sums.
squeeze_channels_(ilabel) ==
    [p \in 1..Len(ilabel) |-> weighted_sum(ilabel[p], Len(ilabel[p]))]

\* Fault variant of clip_label: >= in place of >.
clip_label_ge(label, nc) ==
    [p \in 1..Len(label) |-> IF label[p] >= nc - 1 THEN 0 ELSE label[p]]

\* Fault variant of clip_label: compares with C in place of C - 1.
clip_label_gt_nc(label, nc) ==
    [p \in 1..Len(label) |-> IF label[p] > nc THEN 0 ELSE label[p]]

\* label[label > labels.shape[-1] - 1] = 0
clip_label(label, nc) ==
    [p \in 1..Len(label) |-> IF label[p] > nc - 1 THEN 0 ELSE label[p]]

\* np.unique(label)
unique(label) == {label[p] : p \in 1..Len(label)}

\* Fault variant of keep_pair: <= in place of ==.
keep_pair_le(label, nc) == Cardinality(unique(label)) <= nc

\* len(np.unique(label)) == labels.shape[-1]
keep_pair(label, nc) == Cardinality(unique(label)) = nc

\* images_valid.append(...), labels_valid.append(...)
append_valid(s, e) == Append(s, e)

\* The for loop over zip(labels, images), from pair i on; zip stops at the
\* shorter of the two batches.
RECURSIVE squeeze_loop(_, _, _, _, _, _, _)
squeeze_loop(imgs, lbls, clp, nc, i, images_valid, labels_valid) ==
    IF i > Min(Len(lbls), Len(imgs))
    THEN [images_valid |-> images_valid, labels_valid |-> labels_valid]
    ELSE LET label == squeeze_channels_(lbls[i]) IN
         IF clp
         THEN squeeze_loop(imgs, lbls, clp, nc, i + 1,
                           append_valid(images_valid, imgs[i]),
                           append_valid(labels_valid, clip_label(label, nc)))
         ELSE IF keep_pair(label, nc)
              THEN squeeze_loop(imgs, lbls, clp, nc, i + 1,
                                append_valid(images_valid, imgs[i]),
                                append_valid(labels_valid, label))
              ELSE squeeze_loop(imgs, lbls, clp, nc, i + 1,
                                images_valid, labels_valid)

\* np.concatenate of a list of (1, ...) arrays: the batch of the list's
\* entries; a ValueError on the empty list.
concatenate(list) ==
    IF list = <<>> THEN [err |-> "ValueError", val |-> None]
    ELSE [err |-> "none", val |-> list]

\* squeeze_channels(images, labels, clip) with nc = labels.shape[-1].
squeeze_channels(imgs, lbls, clp, nc) ==
    IF nc = 1 THEN [err |-> "none", images |-> imgs, labels |-> lbls]
    ELSE LET acc == squeeze_loop(imgs, lbls, clp, nc, 1, <<>>, <<>>)
             ci == concatenate(acc.images_valid)
             cl == concatenate(acc.labels_valid)
         IN IF ci.err # "none" \/ cl.err # "none"
            THEN [err |-> "ValueError", images |-> None, labels |-> None]
            ELSE [err |-> "none", images |-> ci.val, labels |-> cl.val]

\* Inputs of squeeze_channels: 0/1 indicator labels of shape (N, H, W, C) and
\* a batch of images, each image identified by its position in the batch.
LabelVals == {0, 1}
LabelImages(nc) == [1..SqPix -> [1..nc -> LabelVals]]

InitSqueeze ==
    /\ pc = "squeeze"
    /\ C \in 1..MaxChan
    /\ labels \in Batches(LabelImages(C), MaxBatch)
    /\ images \in {[i \in 1..k |-> i] : k \in 0..MaxBatch}
    /\ clip \in BOOLEAN
    /\ ret = None
    /\ true = None /\ true_ndim = None /\ pred = None /\ activation = None
    /\ thresh = None /\ pred_act = None /\ pred_thr = None /\ nb_classes = None
    /\ self_true = None /\ self_pred = None /\ n_done = None /\ hist = None

CallSqueeze ==
    /\ pc = "squeeze"
    /\ ret' = squeeze_channels(images, labels, clip, C)
    /\ pc' = IF ret'.err = "none" THEN "returned" ELSE "raised"
    /\ UNCHANGED <<C, images, labels, clip, true, true_ndim, pred, activation,
                   thresh, pred_act, pred_thr, nb_classes, self_true, self_pred,
                   n_done, hist>>

NextSqueeze == CallSqueeze

SpecSqueeze == InitSqueeze /\ [][NextSqueeze]_vars

(***************************************************************************)
(* Numbers.  A float is <<num, den>> with den > 0, reduced; NaN is a value *)
(* of its own.  Ratios of pixel counts and their means are kept exact.     *)
(***************************************************************************)
NaN == <<0, 0>>

RECURSIVE GCD(_, _)
GCD(a, b) == IF b = 0 THEN a ELSE GCD(b, a % b)

Rat(n, d) == IF n = 0 THEN <<0, 1>> ELSE <<n \div GCD(n, d), d \div GCD(n, d)>>

RatAdd(x, y) == Rat(x[1] * y[2] + y[1] * x[2], x[2] * y[2])

\* x > y
RatGt(x, y) == x[1] * y[2] > y[1] * x[2]

(***************************************************************************)
(* IoU.__init__ and IoU.threshold_                                         *)
(***************************************************************************)

\* exp(x) in thousandths, for the raw scores the model draws.
exp_milli(x) == CASE x = 0 -> 1000 [] x = 1 -> 2718

RECURSIVE exp_sum(_, _, _)
exp_sum(img, p, nc) ==
    IF nc = 0 THEN 0 ELSE exp_sum(img, p, nc - 1) + exp_milli(img[nc][p])

\* F.softmax(pred, dim=1): over the channel axis of each (C, H, W) image.
softmax(xarr) ==
    [n \in 1..Len(xarr) |-> [c \in 1..Len(xarr[n]) |->
        [p \in 1..Len(xarr[n][c]) |->
            Rat(exp_milli(xarr[n][c][p]), exp_sum(xarr[n], p, Len(xarr[n])))]]]

\* torch.sigmoid(pred) = exp(x) / (exp(x) + 1)
sigmoid(xarr) ==
    [n \in 1..Len(xarr) |-> [c \in 1..Len(xarr[n]) |->
        [p \in 1..Len(xarr[n][c]) |->
            Rat(exp_milli(xarr[n][c][p]), exp_milli(xarr[n][c][p]) + 1000)]]]

\* pred as passed in, when activation is off.
raw_scores(xarr) ==
    [n \in 1..Len(xarr) |-> [c \in 1..Len(xarr[n]) |->
        [p \in 1..Len(xarr[n][c]) |-> Rat(xarr[n][c][p], 1)]]]

\* The activation block of __init__.
activate(xarr, act, nc) ==
    IF act THEN (IF nc > 1 THEN softmax(xarr) ELSE sigmoid(xarr))
    ELSE raw_scores(xarr)

\* self.nb_classes = pred.shape[1], plus one when it is 1.
init_nb_classes(nc) == IF nc = 1 THEN nc + 1 ELSE nc

\* Fault variant of threshold_binary: >= in place of >.
threshold_binary_ge(x, th) == IF x[1] * th[2] >= th[1] * x[2] THEN 1 ELSE 0

\* cv2.threshold(x, thresh, 1, cv2.THRESH_BINARY) at one element.
threshold_binary(x, th) == IF RatGt(x, th) THEN 1 ELSE 0

\* threshold_(xarr, thresh): xarr.transpose(0, 2, 3, 1) moves the channel axis
\* last, then every image is thresholded into xarr_.
threshold_(xarr, th, nc) ==
    [n \in 1..Len(xarr) |-> [p \in 1..Len(xarr[n][1]) |->
        [c \in 1..nc |-> threshold_binary(xarr[n][c][p], th)]]]

\* Fault variant of init_squeeze: clip=False in place of clip=True.
init_squeeze_noclip(tr, pr, nc) == squeeze_channels(tr, pr, FALSE, nc)

\* "if pred.ndim == 4 and pred.shape[-1] > 1:
\*      true, pred = squeeze_channels(true, pred, clip=True)"
\* true is passed as images and pred as labels; with one channel both stay.
init_squeeze(tr, pr, nc) ==
    IF nc > 1 THEN squeeze_channels(tr, pr, TRUE, nc)
    ELSE [err |-> "none", images |-> tr, labels |-> pr]

\* Inputs of IoU(true, pred, activation, thresh).
Scores == {0, 1}
Threshes == {<<0, 1>>, <<1, 2>>}
PredImages(nc) == [1..nc -> [1..NPix -> Scores]]
\* A ground truth given as class-index maps (N, H, W), here the all-background
\* map and the map alternating classes 0 and 1 ...
TrueMaps == {[p \in 1..NPix |-> 0], [p \in 1..NPix |-> (p - 1) % 2]}
\* ... or with pred's shape (N, C, H, W): the map itself for one channel,
\* its one-hot encoding for several.
OneHot(map, nc) ==
    IF nc = 1 THEN <<map>>
    ELSE [c \in 1..nc |-> [p \in 1..NPix |-> IF map[p] = c - 1 THEN 1 ELSE 0]]
TrueImages(nd, nc) ==
    IF nd = 3 THEN TrueMaps ELSE {OneHot(m, nc) : m \in TrueMaps}

Init ==
    /\ pc = "init"
    /\ C \in 1..MaxChan
    /\ pred \in Batches(PredImages(C), MaxBatch)
    /\ true_ndim \in {3, 4}
    /\ true \in Batches(TrueImages(true_ndim, C), MaxBatch)
    /\ activation \in BOOLEAN
    /\ thresh \in Threshes
    /\ pred_act = None /\ pred_thr = None /\ nb_classes = None
    /\ self_true = None /\ self_pred = None /\ n_done = None /\ hist = None
    /\ images = None /\ labels = None /\ clip = None /\ ret = None

\* __init__, lines 69-79: nb_classes and the activation.
InitActivate ==
    /\ pc = "init"
    /\ nb_classes' = init_nb_classes(C)
    /\ pred_act' = activate(pred, activation, C)
    /\ pc' = "threshold"
    /\ UNCHANGED <<C, images, labels, clip, ret, true, true_ndim, pred,
                   activation, thresh, pred_thr, self_true, self_pred, n_done,
                   hist>>

\* __init__, line 80: pred = self.threshold_(pred, thresh).
InitThreshold ==
    /\ pc = "threshold"
    /\ pred_thr' = threshold_(pred_act, thresh, C)
    /\ pc' = "squeeze_store"
    /\ UNCHANGED <<C, images, labels, clip, ret, true, true_ndim, pred,
                   activation, thresh, pred_act, nb_classes, self_true,
                   self_pred, n_done, hist>>

\* __init__, lines 81-89: the squeeze, the casts to long (the entries are
\* whole numbers already) and the stores; an error of squeeze_channels leaves
\* the constructor.
InitStore ==
    /\ pc = "squeeze_store"
    /\ LET r == init_squeeze(true, pred_thr, C) IN
         IF r.err # "none"
         THEN /\ pc' = "raised"
              /\ ret' = [err |-> r.err, val |-> None]
              /\ UNCHANGED <<self_true, self_pred>>
         ELSE /\ pc' = "constructed"
              /\ self_pred' = r.labels
              /\ self_true' = r.images
              /\ ret' = ret
    /\ UNCHANGED <<C, images, labels, clip, true, true_ndim, pred, activation,
                   thresh, pred_act, pred_thr, nb_classes, n_done, hist>>

(***************************************************************************)
(* IoU.compute_hist and IoU.evaluate                                       *)
(***************************************************************************)

RECURSIVE concat_rows(_, _)
concat_rows(x, k) == IF k = 0 THEN <<>> ELSE concat_rows(x, k - 1) \o x[k]

\* t.flatten(): a (H, W) map is its pixel sequence, a (C, H, W) image the
\* concatenation of its channel rows.
flatten_true(t, nd) == IF nd = 3 THEN t ELSE concat_rows(t, Len(t))

\* p.flatten(): a (H, W) map is its pixel sequence, a (H, W, 1) image the
\* concatenation of its one-entry channel vectors.
flatten_pred(p, nc) == IF nc > 1 THEN p ELSE concat_rows(p, Len(p))

\* mask = (true >= 0) & (true < self.nb_classes), at one position.
mask(t, nb) == t >= 0 /\ t < nb

\* self.nb_classes * true[mask] + pred[mask], at one masked position.
flat_index(t, p, nb) == nb * t + p

\* torch.bincount(x, minlength): a RuntimeError on a negative entry, else the
\* counts of 0..max(minlength, max(x) + 1) - 1.  x maps the positions of its
\* entries to the entries.
bincount(x, minlength) ==
    IF \E j \in DOMAIN x : x[j] < 0 THEN [err |-> "RuntimeError", val |-> None]
    ELSE LET top == CHOOSE m \in {minlength} \cup {x[j] + 1 : j \in DOMAIN x} :
                        \A j \in DOMAIN x : x[j] + 1 <= m /\ minlength <= m
         IN [err |-> "none",
             val |-> [k \in 0..(top - 1) |->
                          Cardinality({j \in DOMAIN x : x[j] = k})]]

\* hist.reshape(nb, nb): a RuntimeError unless hist has nb * nb entries.
reshape(flat, nb) ==
    IF Cardinality(DOMAIN flat) # nb * nb
    THEN [err |-> "RuntimeError", val |-> None]
    ELSE [err |-> "none",
          val |-> [i \in 0..(nb - 1) |-> [j \in 0..(nb - 1) |-> flat[nb * i + j]]]]

\* compute_hist(true, pred) on flattened true and pred; indexing pred with a
\* mask of another length is an IndexError.
compute_hist(t, p, nb) ==
    IF Len(p) # Len(t) THEN [err |-> "IndexError", val |-> None]
    ELSE LET pos == {j \in 1..Len(t) : mask(t[j], nb)}
             x == [j \in pos |-> flat_index(t[j], p[j], nb)]
             counts == bincount(x, nb * nb)
         IN IF counts.err # "none" THEN counts ELSE reshape(counts.val, nb)

\* torch.zeros((nb, nb))
zeros(nb) == [i \in 0..(nb - 1) |-> [j \in 0..(nb - 1) |-> 0]]

\* Fault variant of hist_add: = in place of +=.
hist_overwrite(h, g) == g

\* hist += compute_hist(...)
hist_add(h, g) == [i \in DOMAIN h |-> [j \in DOMAIN h[i] |-> h[i][j] + g[i][j]]]

\* torch.sum of the entries f[0], ..., f[k]
RECURSIVE sum_upto(_, _)
sum_upto(f, k) == IF k < 0 THEN 0 ELSE sum_upto(f, k - 1) + f[k]

\* A_inter_B = torch.diag(hist)
diag(h, k) == h[k][k]
\* A = torch.sum(hist, dim=1): the row sums
row_sum(h, k) == sum_upto(h[k], Cardinality(DOMAIN h) - 1)
\* B = torch.sum(hist, dim=0): the column sums
col_sum(h, k) ==
    sum_upto([i \in DOMAIN h |-> h[i][k]], Cardinality(DOMAIN h) - 1)

\* u + 1e-10 for a count u held in float32: a count of at least 1 absorbs
\* 1e-10 (half an ulp of 1.0 is 6e-8), and 0 + 1e-10 is 1e-10.
add_eps(u) == [whole |-> u, eps |-> u = 0]

\* n / d for a count n and a denominator d = whole (+ 1e-10 when eps):
\* 0/0 is NaN; 0 over anything positive is 0; n over 1e-10 is n * 1e10,
\* written <<n, 0>> (no count reaches it: the diagonal never exceeds the
\* union).
float_div(n, d) ==
    IF d.whole = 0 /\ ~d.eps THEN (IF n = 0 THEN NaN ELSE <<1, 0>>)
    ELSE IF n = 0 THEN <<0, 1>>
    ELSE IF d.whole > 0 THEN Rat(n, d.whole)
    ELSE <<n, 0>>

\* jcd = A_inter_B / (A + B - A_inter_B + 1e-10)
jaccard(h) ==
    [k \in 0..(Cardinality(DOMAIN h) - 1) |->
        float_div(diag(h, k),
                  add_eps(row_sum(h, k) + col_sum(h, k) - diag(h, k)))]

\* jcd[jcd == jcd]: the indices of the entries that are not NaN.
not_nan(jcd) == {k \in DOMAIN jcd : jcd[k] # NaN}

RECURSIVE rat_sum(_, _)
rat_sum(jcd, S) ==
    IF S = {} THEN <<0, 1>>
    ELSE LET k == CHOOSE x \in S : TRUE IN RatAdd(jcd[k], rat_sum(jcd, S \ {k}))

\* torch.mean over the selected entries; the mean of no entry is NaN.
mean(jcd, S) ==
    IF S = {} THEN NaN
    ELSE LET t == rat_sum(jcd, S) IN Rat(t[1], t[2] * Cardinality(S))

\* evaluate, lines 124-126: hist = torch.zeros((nb, nb)).
EvalStart ==
    /\ pc = "constructed"
    /\ hist' = zeros(nb_classes)
    /\ n_done' = 0
    /\ pc' = "loop"
    /\ UNCHANGED <<C, images, labels, clip, ret, true, true_ndim, pred,
                   activation, thresh, pred_act, pred_thr, nb_classes,
                   self_true, self_pred>>

\* evaluate, lines 127-128: one iteration of the loop over
\* zip(self.true, self.pred), which stops at the shorter batch.
EvalStep ==
    /\ pc = "loop"
    /\ n_done < Min(Len(self_true), Len(self_pred))
    /\ LET h == compute_hist(flatten_true(self_true[n_done + 1], true_ndim),
                             flatten_pred(self_pred[n_done + 1], C),
                             nb_classes) IN
         IF h.err # "none"
         THEN /\ pc' = "raised"
              /\ ret' = h
              /\ UNCHANGED <<hist, n_done>>
         ELSE /\ hist' = hist_add(hist, h.val)
              /\ n_done' = n_done + 1
              /\ UNCHANGED <<pc, ret>>
    /\ UNCHANGED <<C, images, labels, clip, true, true_ndim, pred, activation,
                   thresh, pred_act, pred_thr, nb_classes, self_true, self_pred>>

\* evaluate, lines 129-134: the per-class Jaccard vector and the mean of its
\* entries that are not NaN.
EvalReduce ==
    /\ pc = "loop"
    /\ n_done = Min(Len(self_true), Len(self_pred))
    /\ LET jcd == jaccard(hist) IN
         ret' = [err |-> "none", val |-> mean(jcd, not_nan(jcd))]
    /\ pc' = "done"
    /\ UNCHANGED <<C, images, labels, clip, true, true_ndim, pred, activation,
                   thresh, pred_act, pred_thr, nb_classes, self_true, self_pred,
                   n_done, hist>>

Next ==
    \/ InitActivate
    \/ InitThreshold
    \/ InitStore
    \/ EvalStart
    \/ EvalStep
    \/ EvalReduce

\* IoU(true, pred, activation, thresh) followed by evaluate().
Spec == Init /\ [][Next]_vars

\* The objects evaluate() can be called on: pred holds {0, 1} in (N, H, W, 1)
\* when it had one channel and class indices 0..C-1 in (N, H, W) otherwise,
\* where the squeeze has cut both batches to the same, non-zero, length; true
\* holds any integers, one per pixel.
TrueVals(nb) == (-1)..nb
StoredPred(nc) ==
    IF nc = 1 THEN [1..NPix -> {<<0>>, <<1>>}] ELSE [1..NPix -> 0..(nc - 1)]

InitEval ==
    /\ pc = "constructed"
    /\ C \in 1..MaxChan
    /\ nb_classes = init_nb_classes(C)
    /\ true_ndim = 3
    /\ self_pred \in Batches(StoredPred(C), MaxBatch)
    /\ self_true \in Batches([1..NPix -> TrueVals(nb_classes)], MaxBatch)
    /\ C > 1 => (Len(self_true) = Len(self_pred) /\ Len(self_pred) > 0)
    /\ n_done = None /\ hist = None /\ ret = None
    /\ true = None /\ pred = None /\ activation = None /\ thresh = None
    /\ pred_act = None /\ pred_thr = None
    /\ images = None /\ labels = None /\ clip = None

NextEval ==
    \/ EvalStart
    \/ EvalStep
    \/ EvalReduce

SpecEval == InitEval /\ [][NextEval]_vars

(***************************************************************************)
(* Claims about squeeze_channels, checked under SpecSqueeze.               *)
(***************************************************************************)

\* The class index a 0/1 channel vector encodes, stated without the code's
\* loop: the sum of the (0-based) indices of the channels that are set.
RECURSIVE SumSet(_)
SumSet(S) == IF S = {} THEN 0
             ELSE LET x == CHOOSE y \in S : TRUE IN x + SumSet(S \ {x})
IndexOf(vec) == SumSet({c \in 0..(Len(vec) - 1) : vec[c + 1] = 1})
IndexMap(ilabel) == [p \in 1..Len(ilabel) |-> IndexOf(ilabel[p])]

\* Number of (label, image) pairs the call is given.
NPairs == Min(Len(labels), Len(images))

\* The k-th smallest element of a set of naturals.
Kth(S, k) == CHOOSE i \in S : Cardinality({j \in S : j <= i}) = k

\* C4 as amended: with C > 1 and clip=True every one of the n >= 1 pairs is
\* kept in order (n is the input batch size when images and labels have the
\* same length), entries whose weighted sum exceeds C-1 are 0, the others
\* equal the weighted sum, so all lie in [0, C-1]; with no pair at all the
\* call raises instead of returning an empty batch.
C4_ClipKeepsEveryPair ==
    (pc # "squeeze" /\ clip /\ C > 1) =>
        IF NPairs = 0 THEN pc = "raised"
        ELSE /\ pc = "returned"
             /\ Len(ret.labels) = NPairs
             /\ Len(ret.images) = NPairs
             /\ \A i \in 1..NPairs :
                  /\ ret.images[i] = images[i]
                  /\ \A p \in 1..SqPix :
                       /\ ret.labels[i][p] \in 0..(C - 1)
                       /\ ret.labels[i][p] =
                            IF IndexOf(labels[i][p]) > C - 1 THEN 0
                            ELSE IndexOf(labels[i][p])

\* C4 witness: a two-pair batch with three channels whose first image has a
\* pixel set in channels 1 and 2 (weighted sum 3 > 2) was returned with that
\* entry forced to 0.
C4_Witness ==
    /\ pc = "returned" /\ clip /\ C = 3
    /\ Len(labels) = 2 /\ Len(images) = 2
    /\ labels[1][1] = <<0, 1, 1>>
    /\ ret.labels[1][1] = 0
    /\ ret.labels[2][1] = 2

\* C4 as stated: with C > 1 and clip=True the output batch size equals the
\* input batch size for every batch size, the empty batch included, and every
\* entry lies in [0, C-1].
C4_Original ==
    (pc # "squeeze" /\ clip /\ C > 1 /\ Len(images) = Len(labels)) =>
        /\ pc = "returned"
        /\ Len(ret.labels) = Len(labels)
        /\ Len(ret.images) = Len(images)
        /\ \A i \in 1..Len(labels) : \A p \in 1..SqPix :
             ret.labels[i][p] \in 0..(C - 1)

\* Positions of the pairs the strict filter keeps: the index map has exactly
\* C distinct values.
StrictKept ==
    {i \in 1..NPairs :
        Cardinality({IndexOf(labels[i][p]) : p \in 1..SqPix}) = C}

\* Every pixel of every label has exactly one channel set and every class
\* occurs in every label.
FullOneHot ==
    \A i \in 1..Len(labels) :
        /\ \A p \in 1..SqPix :
             Cardinality({c \in 1..C : labels[i][p][c] = 1}) = 1
        /\ \A c \in 1..C : \E p \in 1..SqPix : labels[i][p][c] = 1

C9_KeptMapsCoverClasses ==
    (pc = "returned" /\ ~clip /\ C > 1) =>
        \A k \in 1..Len(ret.labels) :
            {ret.labels[k][p] : p \in 1..SqPix} = 0..(C - 1)
(***************************************************************************)
(* Claims about IoU.__init__ and IoU.threshold_, checked under Spec.       *)
(***************************************************************************)

Thresholded == pc \notin {"init", "threshold"}
Stored == pc \in {"constructed", "loop", "done"}

\* C8 as amended: threshold_ maps every element, per channel, to 1 if it is
\* strictly greater than thresh and to 0 otherwise (an element equal to thresh
\* becomes 0), and returns the result with the channel axis moved last,
\* (N, C, H, W) -> (N, H, W, C); an array of 0s and 1s thresholded at 0.5 comes
\* back with every element unchanged at its transposed position.
C8_ThresholdElementwise ==
    Thresholded =>
        /\ Len(pred_thr) = Len(pred)
        /\ \A n \in 1..Len(pred) : \A c \in 1..C : \A p \in 1..NPix :
             LET x == pred_act[n][c][p] IN
             /\ pred_thr[n][p][c] \in {0, 1}
             /\ pred_thr[n][p][c] = 1 <=> x[1] * thresh[2] > thresh[1] * x[2]
             /\ (~activation /\ thresh = <<1, 2>>) =>
                    pred_thr[n][p][c] = pred[n][c][p]

\* C8 witness: a one-image, two-channel array of 0s and 1s was thresholded at
\* 0.5 without activation: channels <<0, 1>> and <<0, 1>> come back as the
\* pixels <<0, 0>> and <<1, 1>>.
C8_Witness ==
    /\ pc = "squeeze_store" /\ ~activation /\ thresh = <<1, 2>> /\ C = 2
    /\ pred = << << <<0, 1>>, <<0, 1>> >> >>
    /\ pred_thr = << << <<0, 0>>, <<1, 1>> >> >>

\* C8 as stated: thresholding an array of 0s and 1s at 0.5 returns the array
\* unchanged.
C8_Original ==
    (Thresholded /\ ~activation /\ thresh = <<1, 2>>) => pred_thr = pred

\* Number of (true, pred) pairs the constructor's squeeze is given.
NInitPairs == Min(Len(true), Len(pred))

C10_StoredPredInRange ==
    Stored =>
        /\ nb_classes = IF C = 1 THEN 2 ELSE C
        /\ \A i \in 1..Len(self_pred) : \A p \in 1..NPix :
             LET e == flatten_pred(self_pred[i], C)[p] IN
             /\ e \in 0..(nb_classes - 1)
             /\ C = 1 => e \in {0, 1}
             /\ \A t \in (-1)..(nb_classes + 1) :
                  mask(t, nb_classes) =>
                      flat_index(t, e, nb_classes)
                          \in 0..(nb_classes * nb_classes - 1)
        /\ true_ndim = 3 =>
             \A i \in 1..Min(Len(self_true), Len(self_pred)) :
                LET h == compute_hist(flatten_true(self_true[i], true_ndim),
                                      flatten_pred(self_pred[i], C), nb_classes)
                IN /\ h.err = "none"
                   /\ DOMAIN h.val = 0..(nb_classes - 1)
                   /\ \A r \in DOMAIN h.val :
                        DOMAIN h.val[r] = 0..(nb_classes - 1)

\* C10 witness: three channels with softmax and thresh 0: every channel of
\* every pixel passes the threshold, every weighted sum is 3 and the stored
\* pred is 0 everywhere; evaluate() ran to its end on it.
C10_Witness ==
    /\ pc = "done" /\ C = 3 /\ activation /\ thresh = <<0, 1>>
    /\ Len(pred) = 2 /\ true_ndim = 3 /\ Len(true) = 2
    /\ pred_thr[1] = << <<1, 1, 1>>, <<1, 1, 1>> >>
    /\ self_pred = << <<0, 0>>, <<0, 0>> >>

\* C7 as stated: with different batch sizes of true and pred, construction or
\* evaluate() fails, so a score is returned only for equal batch sizes (stated
\* for two non-empty batches).
C7_MismatchRaises ==
    (pc = "done" /\ Len(true) > 0 /\ Len(pred) > 0) => Len(true) = Len(pred)

(***************************************************************************)
(* Claims about IoU.evaluate, checked under SpecEval.                      *)
(***************************************************************************)

NEvalPairs == Min(Len(self_true), Len(self_pred))

RECURSIVE SumOver(_, _)
SumOver(h, S) ==
    IF S = {} THEN 0
    ELSE LET q == CHOOSE x \in S : TRUE IN h[q[1]][q[2]] + SumOver(h, S \ {q})
HistTotal == SumOver(hist, (0..(nb_classes - 1)) \X (0..(nb_classes - 1)))

\* Pixel positions of the first n pairs whose true value is a class index.
ValidPositions(n) ==
    {q \in (1..n) \X (1..NPix) :
        self_true[q[1]][q[2]] >= 0 /\ self_true[q[1]][q[2]] < nb_classes}

\* C2: the histogram evaluate() accumulates has no negative entry, and once k
\* pairs are accumulated its entries sum to the number of pixel positions of
\* those k pairs whose true value t satisfies 0 <= t < nb_classes; at the end
\* every pair of the batch is accumulated.
C2_HistogramTotal ==
    pc \in {"loop", "done"} =>
        /\ \A i \in 0..(nb_classes - 1) : \A j \in 0..(nb_classes - 1) :
             hist[i][j] >= 0
        /\ HistTotal = Cardinality(ValidPositions(n_done))
        /\ pc = "done" => n_done = NEvalPairs

\* C2 witness: evaluate() finished on two three-class pairs whose true maps
\* hold -1, 2, 3 and 0: two positions are valid and the histogram sums to 2.
C2_Witness ==
    /\ pc = "done" /\ C = 3 /\ n_done = 2
    /\ self_true = << <<-1, 2>>, <<3, 0>> >>
    /\ HistTotal = 2

\* The stored pred equals the stored true at every pixel of a non-empty batch.
PerfectPrediction ==
    /\ Len(self_true) = Len(self_pred)
    /\ Len(self_true) > 0
    /\ \A i \in 1..Len(self_true) :
         flatten_pred(self_pred[i], C) = flatten_true(self_true[i], true_ndim)

\* C1 as stated: evaluate() returns exactly 1.0 whenever pred equals true at
\* every pixel, also when some class occurs in no pixel.
C1_PerfectPredictionIsOne ==
    (pc = "done" /\ PerfectPrediction) => ret.val = <<1, 1>>

\* Classes that occur in the true or the predicted maps of the batch.
PresentClasses ==
    {k \in 0..(nb_classes - 1) : row_sum(hist, k) + col_sum(hist, k) > 0}

\* C3 as stated: a class with zero row and column sums has a NaN Jaccard
\* entry and is left out of the mean; the score is the mean of diag / union
\* over the other classes, and NaN exactly when there is no other class
\* (stated for a non-empty batch with as many true as pred images).
C3_DegenerateClassesExcluded ==
    (pc = "done" /\ Len(self_true) = Len(self_pred) /\ Len(self_true) > 0) =>
        ret.val =
            mean([k \in 0..(nb_classes - 1) |->
                     IF k \in PresentClasses
                     THEN Rat(diag(hist, k),
                              row_sum(hist, k) + col_sum(hist, k) - diag(hist, k))
                     ELSE NaN],
                 PresentClasses)
====
